---- MODULE Spec2Model ----
(***************************************************************************)
(* Model of src/app/api/generate-dynamic-resume-pdf/route.ts: the resume   *)
(* layout engine (parseResume, formatDate, wrapText, drawTextWithBold,     *)
(* generateResumePdf) and the POST handler that calls it.                  *)
(*                                                                         *)
(* Text is a sequence of characters, each a string.  The non-ASCII        *)
(* characters of the code are named: "endash" (U+2013), "middot" (U+00B7)  *)
(* and "bullet" (U+2022).  The character "w" (and its upper case "W")      *)
(* abbreviates an unbreakable run of WideRun letters: no code path looks   *)
(* inside a run of letters, so only its width differs from the letter "a". *)
(*                                                                         *)
(* Lengths are integers in 1/UnitsPerEm of a point, so that the products   *)
(* glyph-units * font-size of the font metrics and the decimal line        *)
(* heights (19.2, 13.5, 15.4) are exact.  Binary floating-point rounding   *)
(* of those decimals is not modelled.                                      *)
(***************************************************************************)
EXTENDS Integers, Sequences, FiniteSets, TLC

VARIABLES
  pc,               \* position of the running function
  arg,              \* the argument of the running function
  ret,              \* its return value (meaningful once pc = "done")
  fields,           \* generateResumePdf: the destructured parseResume result
  y,                \* generateResumePdf: vertical cursor
  page,             \* generateResumePdf: index in pages of the current page
  pages,            \* generateResumePdf: pdfDoc's page list, each with its draw operations
  bodyLines,        \* generateResumePdf: body.split('\n')
  i,                \* generateResumePdf: index of the body loop (0-based, as in the code)
  blk,              \* generateResumePdf: which wrapped block is being drawn
  queue,            \* generateResumePdf: wrapped sub-lines of the block not yet iterated
  job,              \* generateResumePdf: the regex match of the current job entry
  inSkillsSection,  \* generateResumePdf: flag set by a 'skills:' header
  skills,           \* generateResumePdf: the skills list (never appended to)
  calls,            \* POST: the calls made so far to the text generation and to generateResumePdf
  invocations       \* two invocations of generateResumePdf: which one runs, the frame of each
                    \* while it is suspended at an await, and the documents of the runs alone

vars == <<pc, arg, ret, fields, y, page, pages, bodyLines, i, blk, queue, job,
          inSkillsSection, skills, calls, invocations>>

----------------------------------------------------------------------------
(* Bounds of the model.                                                    *)

\* number of letters the character "w" stands for
WideRun == 40
\* longest body (in lines) of the resumes laid out
MaxBodyLines == 2
\* number of words of the long paragraph of the resumes laid out
ParaWords == 44
\* number of words of the long name of the resumes laid out
NameWords == 38
\* longest text (in lines) given to parseResume on its own
MaxTextLines == 9
\* longest text (in characters) given to wrapText on its own
MaxWrapLen == 5
\* longest text (in characters) given to drawTextWithBold on its own
MaxBoldLen == 7
\* longest body line (in pieces) of the one-line bodies laid out
MaxLinePieces == 4
\* longest text (in pieces) given to formatDate on its own
MaxDatePieces == 3

----------------------------------------------------------------------------
(* Strings.                                                                *)

\* the value of a destructured array element that does not exist
Undefined == <<"<undefined>">>

\* String.prototype.trim's white space, among the characters of the model
IsSpace(c) == c \in {" ", "\t", "\r", "\n"}

\* the characters the regular expression '.' does not match
IsLineTerminator(c) == c \in {"\r", "\n"}

IsDigit(c) == c \in {"0", "1", "2", "3", "4", "5", "6", "7", "8", "9"}

RECURSIVE TrimLeft(_)
TrimLeft(s) == IF s # <<>> /\ IsSpace(Head(s)) THEN TrimLeft(Tail(s)) ELSE s

RECURSIVE TrimRight(_)
TrimRight(s) == IF s # <<>> /\ IsSpace(s[Len(s)]) THEN TrimRight(SubSeq(s, 1, Len(s) - 1)) ELSE s

\* String.prototype.trim
Trim(s) == TrimRight(TrimLeft(s))

RECURSIVE SplitRange(_, _, _, _)
\* the pieces of s[lo..hi] between the separators, by halves: the last piece
\* of the left half and the first piece of the right half are one piece
SplitRange(s, lo, hi, seps) ==
  IF lo > hi THEN << <<>> >>
  ELSE IF lo = hi THEN (IF s[lo] \in seps THEN << <<>>, <<>> >> ELSE << <<s[lo]>> >>)
  ELSE LET mid == (lo + hi) \div 2
           l == SplitRange(s, lo, mid, seps)
           r == SplitRange(s, mid + 1, hi, seps)
       IN SubSeq(l, 1, Len(l) - 1) \o << l[Len(l)] \o r[1] >> \o Tail(r)

\* String.prototype.split on a separator of one character out of seps: the
\* pieces between the separators, empty pieces included ('' gives [''])
Split(s, seps) == SplitRange(s, 1, Len(s), seps)

RECURSIVE JoinRange(_, _, _, _)
\* the elements lo..hi of parts with sep between them, by halves
JoinRange(parts, lo, hi, sep) ==
  IF lo > hi THEN <<>>
  ELSE IF lo = hi THEN parts[lo]
  ELSE LET mid == (lo + hi) \div 2
       IN JoinRange(parts, lo, mid, sep) \o sep \o JoinRange(parts, mid + 1, hi, sep)

\* Array.prototype.join
Join(parts, sep) == JoinRange(parts, 1, Len(parts), sep)

\* Array.prototype.slice(from) with a 0-based start
SliceFrom(a, from) == SubSeq(a, from + 1, Len(a))

StartsWith(s, p) == Len(s) >= Len(p) /\ SubSeq(s, 1, Len(p)) = p

EndsWith(s, p) == Len(s) >= Len(p) /\ SubSeq(s, Len(s) - Len(p) + 1, Len(s)) = p

\* String.prototype.toUpperCase on the letters of the model
UpperChar(c) ==
  CASE c = "a" -> "A" [] c = "w" -> "W" [] c = "s" -> "S" [] c = "k" -> "K"
    [] c = "i" -> "I" [] c = "l" -> "L" [] c = "t" -> "T" [] OTHER -> c

\* String.prototype.toLowerCase on the letters of the model
LowerChar(c) ==
  CASE c = "A" -> "a" [] c = "W" -> "w" [] c = "S" -> "s" [] c = "K" -> "k"
    [] c = "I" -> "i" [] c = "L" -> "l" [] c = "T" -> "t" [] OTHER -> c

toUpperCase(s) == [k \in 1..Len(s) |-> UpperChar(s[k])]

toLowerCase(s) == [k \in 1..Len(s) |-> LowerChar(s[k])]

----------------------------------------------------------------------------
(* parseResume (lines 7-22).                                               *)

RECURSIVE CollectInfoUntrimmed(_, _, _)
\* the loop pushing lines[idx] where the code pushes lines[idx].trim()
CollectInfoUntrimmed(lines, idx, info) ==
  IF idx >= Len(lines) THEN [info |-> info, bodyStart |-> 0]
  ELSE LET info2 == IF Trim(lines[idx + 1]) # <<>> THEN Append(info, lines[idx + 1]) ELSE info
       IN IF Len(info2) = 6 THEN [info |-> info2, bodyStart |-> idx + 1]
          ELSE CollectInfoUntrimmed(lines, idx + 1, info2)

RECURSIVE CollectInfo(_, _, _)
\* the for loop of lines 11-17: the collected lines and bodyStart
CollectInfo(lines, idx, info) ==
  IF idx >= Len(lines) THEN [info |-> info, bodyStart |-> 0]
  ELSE LET t == Trim(lines[idx + 1])
           info2 == IF t # <<>> THEN Append(info, t) ELSE info
       IN IF Len(info2) = 6 THEN [info |-> info2, bodyStart |-> idx + 1]
          ELSE CollectInfo(lines, idx + 1, info2)

RECURSIVE SkipBlank(_, _)
\* the while loop of line 19
SkipBlank(lines, bodyStart) ==
  IF bodyStart < Len(lines) /\ Trim(lines[bodyStart + 1]) = <<>>
  THEN SkipBlank(lines, bodyStart + 1)
  ELSE bodyStart

\* destructuring that reads one element too far to the left
DestructureShifted(info, k) == IF k < Len(info) THEN info[k] ELSE Undefined

\* array destructuring of line 18: element k (1-based) or undefined
Destructure(info, k) == IF k <= Len(info) THEN info[k] ELSE Undefined

parseResume(resumeText) ==
  LET lines == Split(resumeText, {"\n"})
      c == CollectInfo(lines, 0, <<>>)
      bodyStart == SkipBlank(lines, c.bodyStart)
  IN [headline |-> Destructure(c.info, 1),
      name     |-> Destructure(c.info, 2),
      email    |-> Destructure(c.info, 3),
      phone    |-> Destructure(c.info, 4),
      location |-> Destructure(c.info, 5),
      linkedin |-> Destructure(c.info, 6),
      body     |-> Join(SliceFrom(lines, bodyStart), <<"\n">>)]

----------------------------------------------------------------------------
(* Font metrics: font.widthOfTextAtSize of the two embedded standard fonts *)
(* (lines 155-156).  Advance widths are in 1/UnitsPerEm of the font size,  *)
(* in the style of the Helvetica and Helvetica-Bold metrics; kerning is    *)
(* not modelled.                                                           *)

UnitsPerEm == 1000

\* a length given in points in the code
Pt(n) == n * UnitsPerEm

\* advance width of one character in the plain font (StandardFonts.Helvetica)
GlyphPlain(c) ==
  CASE c = " " -> 278 [] c = ":" -> 278 [] c = "/" -> 278 [] c = "," -> 278
    [] c = "*" -> 389 [] c = "-" -> 333 [] c = "middot" -> 278
    [] c = "bullet" -> 350 [] c = "endash" -> 556
    [] c = "w" -> WideRun * 556 [] c = "W" -> WideRun * 667
    [] c \in {"\t", "\r", "\n"} -> 0
    [] c \in {"A", "S", "K", "I", "L", "T", "J", "F", "M", "O", "N", "D"} -> 667
    [] OTHER -> 556

\* advance width of one character in the bold font (StandardFonts.HelveticaBold)
GlyphBold(c) ==
  CASE c = " " -> 278 [] c = ":" -> 333 [] c = "/" -> 278 [] c = "," -> 278
    [] c = "*" -> 389 [] c = "-" -> 333 [] c = "middot" -> 278
    [] c = "bullet" -> 350 [] c = "endash" -> 556
    [] c = "w" -> WideRun * 611 [] c = "W" -> WideRun * 722
    [] c \in {"\t", "\r", "\n"} -> 0
    [] c \in {"A", "S", "K", "I", "L", "T", "J", "F", "M", "O", "N", "D"} -> 722
    [] c \in {"0", "1", "2", "3", "4", "5", "6", "7", "8", "9"} -> 556
    [] OTHER -> 611

Glyph(font, c) == IF font = "fontBold" THEN GlyphBold(c) ELSE GlyphPlain(c)

RECURSIVE GlyphSumOver(_, _, _)
\* the advance widths of the occurrences in text of the characters of chars
GlyphSumOver(font, text, chars) ==
  IF chars = {} THEN 0
  ELSE LET c == CHOOSE x \in chars : TRUE
       IN Glyph(font, c) * Cardinality({k \in 1..Len(text) : text[k] = c})
          + GlyphSumOver(font, text, chars \ {c})

\* the sum of the advance widths of the characters of text
GlyphSum(font, text) == GlyphSumOver(font, text, {text[k] : k \in 1..Len(text)})

\* font.widthOfTextAtSize(text, size), in 1/UnitsPerEm of a point
widthOfTextAtSize(font, text, size) == GlyphSum(font, text) * size

----------------------------------------------------------------------------
(* wrapText (lines 104-120).                                               *)

RECURSIVE WrapLoopGreedy(_, _, _, _, _, _, _)
\* the loop with the width test of line 111 applied to the word alone
WrapLoopGreedy(words, k, currentLine, lines, font, size, maxWidth) ==
  IF k > Len(words)
  THEN IF currentLine # <<>> THEN Append(lines, currentLine) ELSE lines
  ELSE LET testLine == IF currentLine # <<>> THEN currentLine \o <<" ">> \o words[k]
                       ELSE words[k]
           testWidth == widthOfTextAtSize(font, words[k], size)
       IN IF testWidth > maxWidth /\ currentLine # <<>>
          THEN WrapLoopGreedy(words, k + 1, words[k], Append(lines, currentLine),
                              font, size, maxWidth)
          ELSE WrapLoopGreedy(words, k + 1, testLine, lines, font, size, maxWidth)

RECURSIVE WrapLoopDropWord(_, _, _, _, _, _, _)
\* the loop starting an empty line, not the word, when a line is full
WrapLoopDropWord(words, k, currentLine, lines, font, size, maxWidth) ==
  IF k > Len(words)
  THEN IF currentLine # <<>> THEN Append(lines, currentLine) ELSE lines
  ELSE LET testLine == IF currentLine # <<>> THEN currentLine \o <<" ">> \o words[k]
                       ELSE words[k]
           testWidth == widthOfTextAtSize(font, testLine, size)
       IN IF testWidth > maxWidth /\ currentLine # <<>>
          THEN WrapLoopDropWord(words, k + 1, <<>>, Append(lines, currentLine),
                                font, size, maxWidth)
          ELSE WrapLoopDropWord(words, k + 1, testLine, lines, font, size, maxWidth)

RECURSIVE WrapLoop(_, _, _, _, _, _, _)
\* the for loop of lines 108-117 and the final push of line 118; words[k] is
\* the code's words[i] with i = k - 1
WrapLoop(words, k, currentLine, lines, font, size, maxWidth) ==
  IF k > Len(words)
  THEN IF currentLine # <<>> THEN Append(lines, currentLine) ELSE lines
  ELSE LET testLine == IF currentLine # <<>> THEN currentLine \o <<" ">> \o words[k]
                       ELSE words[k]
           testWidth == widthOfTextAtSize(font, testLine, size)
       IN IF testWidth > maxWidth /\ currentLine # <<>>
          THEN WrapLoop(words, k + 1, words[k], Append(lines, currentLine),
                        font, size, maxWidth)
          ELSE WrapLoop(words, k + 1, testLine, lines, font, size, maxWidth)

RECURSIVE WrapLoopNoGuard(_, _, _, _, _, _, _)
\* the loop with the test of line 111 reduced to testWidth > maxWidth
WrapLoopNoGuard(words, k, currentLine, lines, font, size, maxWidth) ==
  IF k > Len(words)
  THEN IF currentLine # <<>> THEN Append(lines, currentLine) ELSE lines
  ELSE LET testLine == IF currentLine # <<>> THEN currentLine \o <<" ">> \o words[k]
                       ELSE words[k]
           testWidth == widthOfTextAtSize(font, testLine, size)
       IN IF testWidth > maxWidth
          THEN WrapLoopNoGuard(words, k + 1, words[k], Append(lines, currentLine),
                               font, size, maxWidth)
          ELSE WrapLoopNoGuard(words, k + 1, testLine, lines, font, size, maxWidth)

wrapTextNoGuard(text, font, size, maxWidth) == WrapLoopNoGuard(Split(text, {" "}), 1, <<>>, <<>>, font, size, maxWidth)

wrapTextGreedy(text, font, size, maxWidth) == WrapLoopGreedy(Split(text, {" "}), 1, <<>>, <<>>, font, size, maxWidth)

wrapText(text, font, size, maxWidth) == WrapLoop(Split(text, {" "}), 1, <<>>, <<>>, font, size, maxWidth)

----------------------------------------------------------------------------
(* formatDate (lines 75-101).                                              *)

monthNames ==
  << <<"J", "a", "n">>, <<"F", "e", "b">>, <<"M", "a", "r">>, <<"A", "p", "r">>,
     <<"M", "a", "y">>, <<"J", "u", "n">>, <<"J", "u", "l">>, <<"A", "u", "g">>,
     <<"S", "e", "p">>, <<"O", "c", "t">>, <<"N", "o", "v">>, <<"D", "e", "c">> >>

\* part.match(/^\d{2}\/\d{4}$/)
IsMonthYear(s) ==
  /\ Len(s) = 7
  /\ s[3] = "/"
  /\ \A k \in {1, 2, 4, 5, 6, 7} : IsDigit(s[k])

DigitValue(c) ==
  CASE c = "0" -> 0 [] c = "1" -> 1 [] c = "2" -> 2 [] c = "3" -> 3 [] c = "4" -> 4
    [] c = "5" -> 5 [] c = "6" -> 6 [] c = "7" -> 7 [] c = "8" -> 8 [] c = "9" -> 9

\* parseInt of a string of two digits
parseInt(s) == DigitValue(s[1]) * 10 + DigitValue(s[2])

\* the month name read at monthIndex + 1
MonthYearOffByOne(s) ==
  LET monthIndex == parseInt(SubSeq(s, 1, 2))
      month == IF monthIndex \in 0..11 THEN monthNames[monthIndex + 1]
               ELSE <<"u", "n", "d", "e", "f", "i", "n", "e", "d">>
  IN month \o <<" ">> \o SubSeq(s, 4, 7)

\* `${monthNames[monthIndex]} ${year}`: an index outside the table reads undefined
MonthYear(s) ==
  LET monthIndex == parseInt(SubSeq(s, 1, 2)) - 1
      month == IF monthIndex \in 0..11 THEN monthNames[monthIndex + 1]
               ELSE <<"u", "n", "d", "e", "f", "i", "n", "e", "d">>
  IN month \o <<" ">> \o SubSeq(s, 4, 7)

formatDate(dateStr) ==
  IF \E k \in 1..Len(dateStr) : dateStr[k] \in {"endash", "-"}
  THEN LET raw == Split(dateStr, {"endash", "-"})
           parts == [k \in 1..Len(raw) |-> Trim(raw[k])]
       IN Join([k \in 1..Len(parts) |->
                  IF IsMonthYear(parts[k]) THEN MonthYear(parts[k]) ELSE parts[k]],
               <<" ", "endash", " ">>)
  ELSE IF IsMonthYear(dateStr) THEN MonthYear(dateStr)
  ELSE dateStr

----------------------------------------------------------------------------
(* drawTextWithBold (lines 123-146).                                       *)

RECURSIVE NonStarRun(_, _)
\* index of the last character of the longest run of [^*] that starts at k
\* (k - 1 when the run is empty)
NonStarRun(text, k) ==
  IF k <= Len(text) /\ text[k] # "*" THEN NonStarRun(text, k + 1) ELSE k - 1

\* index of the last character of a match of \*\*[^*]+\*\* that starts at k,
\* or 0 when there is none
BoldMatchEnd(text, k) ==
  IF k + 1 <= Len(text) /\ text[k] = "*" /\ text[k + 1] = "*"
  THEN LET e == NonStarRun(text, k + 2)
       IN IF e >= k + 2 /\ e + 2 <= Len(text) /\ text[e + 1] = "*" /\ text[e + 2] = "*"
          THEN e + 2 ELSE 0
  ELSE 0

RECURSIVE BoldSplitFrom(_, _, _)
BoldSplitFrom(text, k, cur) ==
  IF k > Len(text) THEN <<cur>>
  ELSE LET e == BoldMatchEnd(text, k)
       IN IF e > 0 THEN <<cur, SubSeq(text, k, e)>> \o BoldSplitFrom(text, e + 1, <<>>)
          ELSE BoldSplitFrom(text, k + 1, Append(cur, text[k]))

\* text.split(/(\*\*[^*]+\*\*)/g): the pieces between matches and, by the
\* capture group, the matches themselves
BoldSplit(text) == BoldSplitFrom(text, 1, <<>>)

\* the test for one star at each end instead of two
IsBoldPartSingleStar(part) == StartsWith(part, <<"*">>) /\ EndsWith(part, <<"*">>)

\* part.startsWith('**') && part.endsWith('**')
IsBoldPart(part) == StartsWith(part, <<"*", "*">>) /\ EndsWith(part, <<"*", "*">>)

\* part.slice(2, -2)
BoldContent(part) == SubSeq(part, 3, Len(part) - 2)

\* one page.drawText call (kind "text") or page.drawLine call (kind "line")
DrawOp(kind, text, x, yy, size, font, color) ==
  [kind |-> kind, text |-> text, x |-> x, y |-> yy, size |-> size, font |-> font,
   color |-> color]

RECURSIVE DrawParts(_, _, _, _, _, _, _, _)
\* the for loop of lines 136-145: the drawText calls, in order
DrawParts(parts, k, offsetX, yy, font, fontBold, size, color) ==
  IF k > Len(parts) THEN <<>>
  ELSE IF IsBoldPart(parts[k])
  THEN LET content == BoldContent(parts[k])
       IN <<DrawOp("text", content, offsetX, yy, size, fontBold, color)>>
          \o DrawParts(parts, k + 1, offsetX + widthOfTextAtSize(fontBold, content, size),
                       yy, font, fontBold, size, color)
  ELSE <<DrawOp("text", parts[k], offsetX, yy, size, font, color)>>
       \o DrawParts(parts, k + 1, offsetX + widthOfTextAtSize(font, parts[k], size),
                    yy, font, fontBold, size, color)

\* the drawText calls drawTextWithBold issues on the page, in order
drawTextWithBold(text, x, yy, font, fontBold, size, color) ==
  DrawParts(BoldSplit(text), 1, x, yy, font, fontBold, size, color)

----------------------------------------------------------------------------
(* The two regular expressions of the job entry (lines 255 and 259).       *)

NoTerminator(line, from, to) == \A k \in from..to : ~IsLineTerminator(line[k])

IsAt(line, p) == p >= 1 /\ p + 3 <= Len(line) /\ SubSeq(line, p, p + 3) = <<" ", "a", "t", " ">>

\* / at .+:.+/.test(line)
isJobExperience(line) ==
  \E p \in 1..Len(line) : \E q \in 1..Len(line) :
    /\ IsAt(line, p)
    /\ q >= p + 5
    /\ line[q] = ":"
    /\ NoTerminator(line, p + 4, q - 1)
    /\ q + 1 <= Len(line)
    /\ ~IsLineTerminator(line[q + 1])

RECURSIVE SkipSpace(_, _)
\* index of the first character at or after k that \s does not match
SkipSpace(line, k) ==
  IF k <= Len(line) /\ IsSpace(line[k]) THEN SkipSpace(line, k + 1) ELSE k

\* ' at ' starts at p and the colon is at q in a match of
\* /^(.+?) at (.+?):\s*(.+)$/ (line is trimmed: it does not end in white space)
JobMatchAt(line, p, q) ==
  /\ p >= 2
  /\ IsAt(line, p)
  /\ NoTerminator(line, 1, p - 1)
  /\ q >= p + 5
  /\ q <= Len(line)
  /\ line[q] = ":"
  /\ NoTerminator(line, p + 4, q - 1)
  /\ SkipSpace(line, q + 1) <= Len(line)
  /\ NoTerminator(line, SkipSpace(line, q + 1), Len(line))

\* line.match(/^(.+?) at (.+?):\s*(.+)$/): both lazy groups take the shortest
\* text for which the rest still matches
JobMatch(line) ==
  LET ps == {p \in 1..Len(line) : \E q \in 1..Len(line) : JobMatchAt(line, p, q)}
  IN IF ps = {} THEN [matched |-> FALSE, jobTitle |-> <<>>, companyName |-> <<>>,
                      period |-> <<>>]
     ELSE LET p == CHOOSE a \in ps : \A b \in ps : a <= b
              qs == {q \in 1..Len(line) : JobMatchAt(line, p, q)}
              q == CHOOSE a \in qs : \A b \in qs : a <= b
          IN [matched |-> TRUE,
              jobTitle |-> SubSeq(line, 1, p - 1),
              companyName |-> SubSeq(line, p + 4, q - 1),
              period |-> SubSeq(line, SkipSpace(line, q + 1), Len(line))]

NoJob == [matched |-> FALSE, jobTitle |-> <<>>, companyName |-> <<>>, period |-> <<>>]

----------------------------------------------------------------------------
(* generateResumePdf (lines 149-352): constants.                           *)

MARGIN_TOP == 72
MARGIN_BOTTOM == 50
MARGIN_LEFT == 50
MARGIN_RIGHT == 50
PAGE_WIDTH == 595
PAGE_HEIGHT == 842
CONTENT_WIDTH == PAGE_WIDTH - MARGIN_LEFT - MARGIN_RIGHT

NAME_SIZE == 24
CONTACT_SIZE == 9
SECTION_HEADER_SIZE == 14
BODY_SIZE == 11

\* NAME_SIZE * 0.8, CONTACT_SIZE * 1.5, SECTION_HEADER_SIZE * 1.5, BODY_SIZE * 1.4
NAME_LINE_HEIGHT == (NAME_SIZE * 8 * UnitsPerEm) \div 10
CONTACT_LINE_HEIGHT == (CONTACT_SIZE * 15 * UnitsPerEm) \div 10
SECTION_LINE_HEIGHT == (SECTION_HEADER_SIZE * 15 * UnitsPerEm) \div 10
BODY_LINE_HEIGHT == (BODY_SIZE * 14 * UnitsPerEm) \div 10

left == Pt(MARGIN_LEFT)
right == Pt(PAGE_WIDTH - MARGIN_RIGHT)

\* the blocks whose loops hold a roll-over check (lines 244, 270, 281, 293, 312,
\* 323, 344); the loops of the name and of the contact line hold none
CheckedBlocks == {"section", "title", "company", "period", "category", "plain", "skills"}

\* the font, size, x, colour and cursor advance of each wrapping loop
Style(b) ==
  CASE b = "name" ->
         [font |-> "fontBold", size |-> NAME_SIZE, x |-> left, color |-> "DARK_BLUE",
          advance |-> NAME_LINE_HEIGHT]
    [] b = "contact" ->
         [font |-> "font", size |-> CONTACT_SIZE, x |-> left, color |-> "DARK_GRAY",
          advance |-> CONTACT_LINE_HEIGHT]
    [] b = "section" ->
         [font |-> "fontBold", size |-> SECTION_HEADER_SIZE, x |-> left,
          color |-> "DARK_BLUE", advance |-> SECTION_LINE_HEIGHT]
    [] b = "title" ->
         [font |-> "fontBold", size |-> BODY_SIZE + 1, x |-> left + Pt(10),
          color |-> "MEDIUM_BLUE", advance |-> BODY_LINE_HEIGHT + Pt(2)]
    [] b = "company" ->
         [font |-> "font", size |-> BODY_SIZE, x |-> left + Pt(10), color |-> "GRAY",
          advance |-> BODY_LINE_HEIGHT]
    [] b = "period" ->
         [font |-> "font", size |-> BODY_SIZE - 1, x |-> left + Pt(10), color |-> "GRAY",
          advance |-> BODY_LINE_HEIGHT - Pt(2)]
    [] b = "category" ->
         [font |-> "fontBold", size |-> BODY_SIZE + 1, x |-> left + Pt(10),
          color |-> "MEDIUM_BLUE", advance |-> BODY_LINE_HEIGHT + Pt(2)]
    [] b = "plain" ->
         [font |-> "font", size |-> BODY_SIZE, x |-> left + Pt(10), color |-> "BLACK",
          advance |-> BODY_LINE_HEIGHT]
    [] b = "skills" ->
         [font |-> "font", size |-> BODY_SIZE, x |-> left + Pt(20), color |-> "DARK_GRAY",
          advance |-> BODY_LINE_HEIGHT]

\* pdfDoc.addPage([width, height]): the page list with one more, empty, page
addPage(doc, width, height) == Append(doc, [size |-> <<width, height>>, ops |-> <<>>])

\* the draw calls ops issued on page number p of doc
DrawOn(doc, p, ops) == [doc EXCEPT ![p].ops = @ \o ops]

\* the roll-over test against the top of the page instead of the bottom margin
NeedsNewPageTop(yy) == yy < Pt(PAGE_HEIGHT)

\* the roll-over test of lines 244, 270, 281, 293, 312, 323, 331 and 344
NeedsNewPage(yy) == yy < Pt(MARGIN_BOTTOM)

\* [location, phone, email, linkedin].filter(Boolean) (lines 202-207)
contactParts(f) ==
  SelectSeq(<<f.location, f.phone, f.email, f.linkedin>>, LAMBDA v : v # Undefined /\ v # <<>>)

\* the trimmed body line of the current iteration (line 233)
CurrentLine == Trim(bodyLines[i + 1])

----------------------------------------------------------------------------
(* generateResumePdf: the steps.                                           *)

\* lines 190-199: the name, wrapped, or the gap that stands for it
NameBlock ==
  /\ pc = "name"
  /\ IF fields.name # Undefined /\ fields.name # <<>>
     THEN /\ queue' = wrapText(toUpperCase(fields.name), "fontBold", NAME_SIZE, Pt(CONTENT_WIDTH))
          /\ blk' = "name"
          /\ pc' = "draw"
          /\ y' = y
     ELSE /\ y' = y - NAME_LINE_HEIGHT
          /\ pc' = "contact"
          /\ UNCHANGED <<queue, blk>>
  /\ UNCHANGED <<arg, calls, invocations, ret, fields, page, pages, bodyLines, i, job,
                 inSkillsSection, skills>>

\* lines 202-217: the contact line, wrapped
ContactBlock ==
  /\ pc = "contact"
  /\ IF Len(contactParts(fields)) > 0
     THEN /\ queue' = wrapText(Join(contactParts(fields), <<" ", "bullet", " ">>), "font",
                               CONTACT_SIZE, Pt(CONTENT_WIDTH))
          /\ blk' = "contact"
          /\ pc' = "draw"
     ELSE /\ pc' = "divider"
          /\ UNCHANGED <<queue, blk>>
  /\ UNCHANGED <<arg, calls, invocations, ret, fields, y, page, pages, bodyLines, i, job,
                 inSkillsSection, skills>>

\* lines 220-231: the divider rule, its gap, and the split of the body
Divider ==
  /\ pc = "divider"
  /\ pages' = DrawOn(pages, page, <<DrawOp("line", <<>>, left, y, 0, "none", "DARK_BLUE")>>)
  /\ y' = y - Pt(16)
  /\ bodyLines' = Split(fields.body, {"\n"})
  /\ i' = 0
  /\ inSkillsSection' = FALSE
  /\ skills' = <<>>
  /\ pc' = "line"
  /\ UNCHANGED <<arg, calls, invocations, ret, fields, page, blk, queue, job>>

\* a wrapping loop whose every iteration ends in a roll-over check, the loops
\* of the name and of the contact line included
DrawChecked ==
  /\ pc = "draw"
  /\ queue # <<>>
  /\ LET st == Style(blk)
         ops == IF blk = "plain"
                THEN drawTextWithBold(Head(queue), st.x, y, "font", "fontBold", st.size, st.color)
                ELSE <<DrawOp("text", Head(queue), st.x, y, st.size, st.font, st.color)>>
     IN /\ pages' = DrawOn(pages, page, ops)
        /\ y' = y - st.advance
  /\ queue' = Tail(queue)
  /\ pc' = "check"
  /\ UNCHANGED <<arg, calls, invocations, ret, fields, page, bodyLines, i, blk, job,
                 inSkillsSection, skills>>

\* one iteration of a wrapping loop up to its roll-over check: the draw of the
\* next wrapped line on the current page and the advance of the cursor
Draw ==
  /\ pc = "draw"
  /\ queue # <<>>
  /\ LET st == Style(blk)
         ops == IF blk = "plain"
                THEN drawTextWithBold(Head(queue), st.x, y, "font", "fontBold", st.size, st.color)
                ELSE <<DrawOp("text", Head(queue), st.x, y, st.size, st.font, st.color)>>
     IN /\ pages' = DrawOn(pages, page, ops)
        /\ y' = y - st.advance
  /\ queue' = Tail(queue)
  /\ pc' = IF blk \in CheckedBlocks THEN "check" ELSE "draw"
  /\ UNCHANGED <<arg, calls, invocations, ret, fields, page, bodyLines, i, blk, job,
                 inSkillsSection, skills>>

\* the check leaving the wrapping loop once it has added a page
InnerCheckBreak ==
  /\ pc = "check"
  /\ IF NeedsNewPage(y)
     THEN /\ pages' = addPage(pages, PAGE_WIDTH, PAGE_HEIGHT)
          /\ page' = Len(pages) + 1
          /\ y' = Pt(PAGE_HEIGHT - MARGIN_TOP)
          /\ queue' = <<>>
     ELSE UNCHANGED <<pages, page, y, queue>>
  /\ pc' = "draw"
  /\ UNCHANGED <<arg, calls, invocations, ret, fields, bodyLines, i, blk, job, inSkillsSection,
                 skills>>

\* the check resetting the cursor without adding a page
InnerCheckNoPage ==
  /\ pc = "check"
  /\ IF NeedsNewPage(y)
     THEN /\ y' = Pt(PAGE_HEIGHT - MARGIN_TOP)
          /\ UNCHANGED <<pages, page>>
     ELSE UNCHANGED <<pages, page, y>>
  /\ pc' = "draw"
  /\ UNCHANGED <<arg, calls, invocations, ret, fields, bodyLines, i, blk, queue, job,
                 inSkillsSection, skills>>

\* the check adding a page without making it the current page
InnerCheckKeepPage ==
  /\ pc = "check"
  /\ IF NeedsNewPage(y)
     THEN /\ pages' = addPage(pages, PAGE_WIDTH, PAGE_HEIGHT)
          /\ y' = Pt(PAGE_HEIGHT - MARGIN_TOP)
          /\ page' = page
     ELSE UNCHANGED <<pages, page, y>>
  /\ pc' = "draw"
  /\ UNCHANGED <<arg, calls, invocations, ret, fields, bodyLines, i, blk, queue, job,
                 inSkillsSection, skills>>

\* the roll-over check that ends an iteration of a wrapping loop of the body
InnerCheck ==
  /\ pc = "check"
  /\ IF NeedsNewPage(y)
     THEN /\ pages' = addPage(pages, PAGE_WIDTH, PAGE_HEIGHT)
          /\ page' = Len(pages) + 1
          /\ y' = Pt(PAGE_HEIGHT - MARGIN_TOP)
     ELSE UNCHANGED <<pages, page, y>>
  /\ pc' = "draw"
  /\ UNCHANGED <<arg, calls, invocations, ret, fields, bodyLines, i, blk, queue, job,
                 inSkillsSection, skills>>

\* what follows a wrapping loop once its lines are exhausted
EndBlock ==
  /\ pc = "draw"
  /\ queue = <<>>
  /\ CASE blk = "name" ->
            /\ y' = y - Pt(2)
            /\ pc' = "contact"
            /\ UNCHANGED <<blk, queue, inSkillsSection>>
       [] blk = "contact" ->
            /\ y' = y - Pt(4)
            /\ pc' = "divider"
            /\ UNCHANGED <<blk, queue, inSkillsSection>>
       [] blk = "section" ->
            /\ inSkillsSection' = (inSkillsSection
                                   \/ toLowerCase(CurrentLine) = <<"s", "k", "i", "l", "l", "s", ":">>)
            /\ pc' = "endcheck"
            /\ UNCHANGED <<y, blk, queue>>
       [] blk = "title" ->
            /\ queue' = wrapText(Trim(job.companyName), "font", BODY_SIZE, Pt(CONTENT_WIDTH - 10))
            /\ blk' = "company"
            /\ pc' = "draw"
            /\ UNCHANGED <<y, inSkillsSection>>
       [] blk = "company" ->
            /\ queue' = wrapText(formatDate(Trim(job.period)), "font", BODY_SIZE - 1,
                                 Pt(CONTENT_WIDTH - 10))
            /\ blk' = "period"
            /\ pc' = "draw"
            /\ UNCHANGED <<y, inSkillsSection>>
       [] blk = "period" ->
            /\ y' = y - Pt(4)
            /\ pc' = "endcheck"
            /\ UNCHANGED <<blk, queue, inSkillsSection>>
       [] blk \in {"category", "plain"} ->
            /\ pc' = "endcheck"
            /\ UNCHANGED <<y, blk, queue, inSkillsSection>>
       [] blk = "skills" ->
            /\ pc' = "save"
            /\ UNCHANGED <<y, blk, queue, inSkillsSection>>
  /\ UNCHANGED <<arg, calls, invocations, ret, fields, page, pages, bodyLines, i, job, skills>>

\* a blank line that falls through to the check of lines 331-334
BlankLineChecked ==
  /\ pc = "line"
  /\ i < Len(bodyLines)
  /\ CurrentLine = <<>>
  /\ y' = y - Pt(6)
  /\ pc' = "endcheck"
  /\ UNCHANGED <<arg, calls, invocations, ret, fields, page, pages, bodyLines, i, blk, queue,
                 job,
                 inSkillsSection, skills>>

\* lines 234-237: a blank line moves the cursor and continues
BlankLine ==
  /\ pc = "line"
  /\ i < Len(bodyLines)
  /\ CurrentLine = <<>>
  /\ y' = y - Pt(6)
  /\ i' = i + 1
  /\ UNCHANGED <<pc, arg, calls, invocations, ret, fields, page, pages, bodyLines, blk, queue,
                 job,
                 inSkillsSection, skills>>

\* lines 238-240: a line that ends with a colon
SectionHeader ==
  /\ pc = "line"
  /\ i < Len(bodyLines)
  /\ CurrentLine # <<>>
  /\ EndsWith(CurrentLine, <<":">>)
  /\ y' = y - Pt(12)
  /\ queue' = wrapText(CurrentLine, "fontBold", SECTION_HEADER_SIZE, Pt(CONTENT_WIDTH))
  /\ blk' = "section"
  /\ pc' = "draw"
  /\ UNCHANGED <<arg, calls, invocations, ret, fields, page, pages, bodyLines, i, job,
                 inSkillsSection, skills>>

\* the job test made before the test for a section header
JobEntryFirst ==
  /\ pc = "line"
  /\ i < Len(bodyLines)
  /\ CurrentLine # <<>>
  /\ isJobExperience(CurrentLine)
  /\ LET match == JobMatch(CurrentLine)
     IN IF match.matched
        THEN /\ job' = match
             /\ y' = y - Pt(8)
             /\ queue' = wrapText(Trim(match.jobTitle), "fontBold", BODY_SIZE + 1,
                                  Pt(CONTENT_WIDTH - 10))
             /\ blk' = "title"
             /\ pc' = "draw"
        ELSE /\ pc' = "endcheck"
             /\ UNCHANGED <<job, y, queue, blk>>
  /\ UNCHANGED <<arg, calls, invocations, ret, fields, page, pages, bodyLines, i,
                 inSkillsSection, skills>>

\* lines 255-266: a line that passes the job test; nothing is drawn when the
\* stricter pattern does not match
JobEntry ==
  /\ pc = "line"
  /\ i < Len(bodyLines)
  /\ CurrentLine # <<>>
  /\ ~EndsWith(CurrentLine, <<":">>)
  /\ isJobExperience(CurrentLine)
  /\ LET match == JobMatch(CurrentLine)
     IN IF match.matched
        THEN /\ job' = match
             /\ y' = y - Pt(8)
             /\ queue' = wrapText(Trim(match.jobTitle), "fontBold", BODY_SIZE + 1,
                                  Pt(CONTENT_WIDTH - 10))
             /\ blk' = "title"
             /\ pc' = "draw"
        ELSE /\ pc' = "endcheck"
             /\ UNCHANGED <<job, y, queue, blk>>
  /\ UNCHANGED <<arg, calls, invocations, ret, fields, page, pages, bodyLines, i,
                 inSkillsSection, skills>>

\* lines 303-308: a line that starts with the middle dot
SkillsCategory ==
  /\ pc = "line"
  /\ i < Len(bodyLines)
  /\ CurrentLine # <<>>
  /\ ~EndsWith(CurrentLine, <<":">>)
  /\ ~isJobExperience(CurrentLine)
  /\ StartsWith(CurrentLine, <<"middot">>)
  /\ queue' = wrapText(Trim(CurrentLine), "fontBold", BODY_SIZE + 1, Pt(CONTENT_WIDTH - 20))
  /\ blk' = "category"
  /\ pc' = "draw"
  /\ UNCHANGED <<arg, calls, invocations, ret, fields, y, page, pages, bodyLines, i, job,
                 inSkillsSection, skills>>

\* lines 317-319: any other line
PlainBody ==
  /\ pc = "line"
  /\ i < Len(bodyLines)
  /\ CurrentLine # <<>>
  /\ ~EndsWith(CurrentLine, <<":">>)
  /\ ~isJobExperience(CurrentLine)
  /\ ~StartsWith(CurrentLine, <<"middot">>)
  /\ queue' = wrapText(CurrentLine, "font", BODY_SIZE, Pt(CONTENT_WIDTH - 10))
  /\ blk' = "plain"
  /\ pc' = "draw"
  /\ UNCHANGED <<arg, calls, invocations, ret, fields, y, page, pages, bodyLines, i, job,
                 inSkillsSection, skills>>

\* lines 331-335: the roll-over check that ends an iteration of the body loop
EndCheck ==
  /\ pc = "endcheck"
  /\ IF NeedsNewPage(y)
     THEN /\ pages' = addPage(pages, PAGE_WIDTH, PAGE_HEIGHT)
          /\ page' = Len(pages) + 1
          /\ y' = Pt(PAGE_HEIGHT - MARGIN_TOP)
     ELSE UNCHANGED <<pages, page, y>>
  /\ i' = i + 1
  /\ pc' = "line"
  /\ UNCHANGED <<arg, calls, invocations, ret, fields, bodyLines, blk, queue, job,
                 inSkillsSection, skills>>

\* the trailing skills block entered on the flag alone
AfterBodyFlagOnly ==
  /\ pc = "line"
  /\ i >= Len(bodyLines)
  /\ IF inSkillsSection
     THEN /\ queue' = wrapText(Join(skills, <<" ">>), "font", BODY_SIZE, Pt(CONTENT_WIDTH - 20))
          /\ blk' = "skills"
          /\ pc' = "draw"
     ELSE /\ pc' = "save"
          /\ UNCHANGED <<queue, blk>>
  /\ UNCHANGED <<arg, calls, invocations, ret, fields, y, page, pages, bodyLines, i, job,
                 inSkillsSection, skills>>

\* lines 336-340: after the last body line, the trailing skills block
AfterBody ==
  /\ pc = "line"
  /\ i >= Len(bodyLines)
  /\ IF inSkillsSection /\ Len(skills) > 0
     THEN /\ queue' = wrapText(Join(skills, <<" ">>), "font", BODY_SIZE, Pt(CONTENT_WIDTH - 20))
          /\ blk' = "skills"
          /\ pc' = "draw"
     ELSE /\ pc' = "save"
          /\ UNCHANGED <<queue, blk>>
  /\ UNCHANGED <<arg, calls, invocations, ret, fields, y, page, pages, bodyLines, i, job,
                 inSkillsSection, skills>>

\* line 351: the document is serialised and returned
Save ==
  /\ pc = "save"
  /\ ret' = pages
  /\ pc' = "done"
  /\ UNCHANGED <<arg, calls, invocations, fields, y, page, pages, bodyLines, i, blk, queue, job,
                 inSkillsSection, skills>>

----------------------------------------------------------------------------
(* The resumes laid out.                                                   *)

\* n copies of the one-character word c, joined by single spaces
Repeat(c, n) == [k \in 1..(2 * n - 1) |-> IF k % 2 = 1 THEN c ELSE " "]

LineChoices ==
  { <<>>,
    <<"a", ":">>,
    <<"S", "k", "i", "l", "l", "s", ":">>,
    <<"a", " ", "a", "t", " ", "a", ":", "a">>,
    <<"a", "\r", "a", " ", "a", "t", " ", "a", ":", "a">>,
    <<"middot", "a">>,
    <<"a">>,
    <<"a", " ", "*", "*", "a", "*", "*">>,
    Repeat("w", ParaWords) }

Bodies == UNION {[1..n -> LineChoices] : n \in 0..MaxBodyLines}

Headers ==
  { <<>>,
    << <<"a">>, <<"a">>, <<"a">>, <<"a">>, <<"a">>, <<"a">> >>,
    << <<"a">>, Repeat("w", NameWords), <<"a">>, <<"a">>, <<"a">>, <<"a">> >> }

Resumes == {Join(h \o b, <<"\n">>) : h \in Headers, b \in Bodies}

\* generateResumePdf(resumeText) after lines 150-187, for a text of the given
\* set: the text is parsed, the document holds its first page and the cursor
\* is at the top margin
Start(resumes) ==
  /\ arg \in resumes
  /\ fields = parseResume(arg)
  /\ pages = addPage(<<>>, 595, 842)
  /\ page = 1
  /\ y = Pt(PAGE_HEIGHT - MARGIN_TOP)
  /\ pc = "name"
  /\ ret = <<>>
  /\ bodyLines = <<>>
  /\ i = 0
  /\ blk = "none"
  /\ queue = <<>>
  /\ job = NoJob
  /\ inSkillsSection = FALSE
  /\ skills = <<>>
  /\ calls = <<>>
  /\ invocations = <<>>

Init == Start(Resumes)

Next ==
  \/ NameBlock
  \/ ContactBlock
  \/ Divider
  \/ Draw
  \/ InnerCheck
  \/ EndBlock
  \/ BlankLine
  \/ SectionHeader
  \/ JobEntry
  \/ SkillsCategory
  \/ PlainBody
  \/ EndCheck
  \/ AfterBody
  \/ Save

Spec == Init /\ [][Next]_vars

----------------------------------------------------------------------------
(* generateResumePdf on resumes with a header of six lines and a body of   *)
(* one line, the line being made of a few pieces.                          *)

\* the pieces of a body line: a letter, two letters with a carriage return
\* between them, ' at ' before a letter or a colon, a colon, the middle dot
LinePieces ==
  { <<"a">>, <<"a", "\r", "a">>, <<" ", "a", "t", " ", "a">>, <<" ", "a", "t", " ", ":">>,
    <<":">>, <<"middot">> }

RECURSIVE Concat(_)
\* the concatenation of a sequence of texts
Concat(ts) == IF ts = <<>> THEN <<>> ELSE Head(ts) \o Concat(Tail(ts))

\* the body lines: the pieces put together, without white space at the ends
\* (the layout trims every line, line 233)
PieceLines ==
  LET all == UNION {{Concat(ts) : ts \in [1..n -> LinePieces]} : n \in 0..MaxLinePieces}
  IN {l \in all : Trim(l) = l}

LineResumes ==
  {Join(<< <<"a">>, <<"a">>, <<"a">>, <<"a">>, <<"a">>, <<"a">>, l >>, <<"\n">>) : l \in PieceLines}

InitLines == Start(LineResumes)

SpecLines == InitLines /\ [][Next]_vars

----------------------------------------------------------------------------
(* generateResumePdf on long resumes: a header of six lines and a body of  *)
(* three lines with runs of blank lines between them.                      *)

\* the length of a run of blank lines, enough to take the cursor from the
\* top of a page to below the bottom margin
BlankRun == 121

\* the number of letters after the wide run in the bold span of BoldSpanLine
BoldTail == 33

\* a run of n blank lines
Blank(n) == [k \in 1..n |-> <<>>]

\* a plain line that is one bold span: '**', a word of WideRun + BoldTail
\* letters, '**'
BoldSpanLine == <<"*", "*", "w">> \o [k \in 1..BoldTail |-> "a"] \o <<"*", "*">>

\* the line 'a\ra at a:a', which passes the job test and fails the job match
UnmatchedJobLine == <<"a", "\r", "a", " ", "a", "t", " ", "a", ":", "a">>

LongBodies ==
  { <<l0>> \o Blank(n1) \o <<l1>> \o Blank(n2) \o <<l2>> :
      l0 \in {<<"a", ":">>, <<"middot", "a">>},
      l1 \in {UnmatchedJobLine, <<"a">>},
      l2 \in {UnmatchedJobLine, <<"a", " ", "a", "t", " ", "a", ":", "a">>, BoldSpanLine},
      n1 \in {0, BlankRun},
      n2 \in {0, BlankRun} }

LongResumes ==
  {Join(<< <<"a">>, <<"a">>, <<"a">>, <<"a">>, <<"a">>, <<"a">> >> \o b, <<"\n">>) : b \in LongBodies}

InitLong == Start(LongResumes)

SpecLong == InitLong /\ [][Next]_vars

----------------------------------------------------------------------------
(* parseResume and wrapText on their own: the argument is drawn in the     *)
(* initial state and one step applies the function.                        *)

\* the variables of generateResumePdf, at rest
LayoutIdle ==
  /\ fields = parseResume(<<>>)
  /\ pages = <<>>
  /\ page = 0
  /\ y = 0
  /\ bodyLines = <<>>
  /\ i = 0
  /\ blk = "none"
  /\ queue = <<>>
  /\ job = NoJob
  /\ inSkillsSection = FALSE
  /\ skills = <<>>
  /\ calls = <<>>
  /\ invocations = <<>>

LayoutUnchanged ==
  UNCHANGED <<fields, y, page, pages, bodyLines, i, blk, queue, job, inSkillsSection, skills,
              calls, invocations>>

Letters == <<"a", "b", "c", "d", "e", "f", "g", "h", "i", "j", "k", "l">>

\* line number k of a text given to parseResume: blank (empty at an odd k,
\* white space at an even k) or the k-th letter between white space
TextLine(kind, k) ==
  CASE kind = "blank" -> IF k % 2 = 1 THEN <<>> ELSE <<" ", "\t">>
    [] kind = "word" -> <<" ", Letters[k], "\t">>

ParseTexts ==
  UNION { {Join([k \in 1..n |-> TextLine(f[k], k)], <<"\n">>) :
             f \in [1..n -> {"blank", "word"}]} : n \in 0..MaxTextLines }

InitParse ==
  /\ pc = "call"
  /\ arg \in ParseTexts
  /\ ret = parseResume(<<>>)
  /\ LayoutIdle

CallParseResume ==
  /\ pc = "call"
  /\ ret' = parseResume(arg)
  /\ pc' = "done"
  /\ UNCHANGED arg
  /\ LayoutUnchanged

NextParse == CallParseResume

SpecParse == InitParse /\ [][NextParse]_vars

\* a width narrow enough for two letters not to fit on a line
NarrowWidth == 10

\* the (font, size, maxWidth) of the calls of wrapText (lines 191, 211, 240,
\* 266, 277, 289, 308, 319, 340), and a narrow width
WrapCalls ==
  { <<"fontBold", NAME_SIZE, Pt(CONTENT_WIDTH)>>,
    <<"font", CONTACT_SIZE, Pt(CONTENT_WIDTH)>>,
    <<"fontBold", SECTION_HEADER_SIZE, Pt(CONTENT_WIDTH)>>,
    <<"fontBold", BODY_SIZE + 1, Pt(CONTENT_WIDTH - 10)>>,
    <<"font", BODY_SIZE, Pt(CONTENT_WIDTH - 10)>>,
    <<"font", BODY_SIZE - 1, Pt(CONTENT_WIDTH - 10)>>,
    <<"fontBold", BODY_SIZE + 1, Pt(CONTENT_WIDTH - 20)>>,
    <<"font", BODY_SIZE, Pt(CONTENT_WIDTH - 20)>>,
    <<"font", BODY_SIZE, Pt(NarrowWidth)>> }

WrapTexts == UNION {[1..n -> {"a", "w", " "}] : n \in 0..MaxWrapLen}

InitWrap ==
  /\ pc = "call"
  /\ arg \in {[text |-> t, font |-> c[1], size |-> c[2], maxWidth |-> c[3]] :
                t \in WrapTexts, c \in WrapCalls}
  /\ ret = <<>>
  /\ LayoutIdle

CallWrapText ==
  /\ pc = "call"
  /\ ret' = wrapText(arg.text, arg.font, arg.size, arg.maxWidth)
  /\ pc' = "done"
  /\ UNCHANGED arg
  /\ LayoutUnchanged

NextWrap == CallWrapText

SpecWrap == InitWrap /\ [][NextWrap]_vars

\* the line of the scenario: 'Built **Redis** caching.'
BuiltRedisCaching ==
  <<"B", "u", "i", "l", "t", " ", "*", "*", "R", "e", "d", "i", "s", "*", "*", " ",
    "c", "a", "c", "h", "i", "n", "g", ".">>

BoldTexts == UNION {[1..n -> {"a", " ", "*"}] : n \in 0..MaxBoldLen} \cup {BuiltRedisCaching}

\* drawTextWithBold on its own, with the x, y, size and colour of its call
\* (line 321) at the top of a page
InitBold ==
  /\ pc = "call"
  /\ arg \in {[text |-> t, x |-> left + Pt(10), y |-> Pt(PAGE_HEIGHT - MARGIN_TOP),
               size |-> BODY_SIZE, color |-> "BLACK"] : t \in BoldTexts}
  /\ ret = <<>>
  /\ LayoutIdle

CallDrawTextWithBold ==
  /\ pc = "call"
  /\ ret' = drawTextWithBold(arg.text, arg.x, arg.y, "font", "fontBold", arg.size, arg.color)
  /\ pc' = "done"
  /\ UNCHANGED arg
  /\ LayoutUnchanged

NextBold == CallDrawTextWithBold

SpecBold == InitBold /\ [][NextBold]_vars

\* the decimal digit of n
Digit(n) == <<"0", "1", "2", "3", "4", "5", "6", "7", "8", "9">>[n + 1]

\* the date 'MM/2022' of month number m, 0 <= m <= 99
DateOfMonth(m) == <<Digit(m \div 10), Digit(m % 10), "/", "2", "0", "2", "2">>

\* the pieces of a text given to formatDate: dates of a month below, in and
\* above the table, a date with a one-digit month, a word, the separators
\* with and without spaces, a space
DatePieces ==
  {DateOfMonth(m) : m \in {0, 1, 6, 12, 13}}
    \cup { <<"6", "/", "2", "0", "2", "2">>, <<"C", "u", "r", "r", "e", "n", "t">>,
           <<" ", "-", " ">>, <<"-">>, <<"endash">>, <<" ">> }

DateTexts ==
  UNION {{Concat(ts) : ts \in [1..n -> DatePieces]} : n \in 0..MaxDatePieces}
    \cup {DateOfMonth(m) : m \in 0..13}

InitDate ==
  /\ pc = "call"
  /\ arg \in DateTexts
  /\ ret = <<>>
  /\ LayoutIdle

CallFormatDate ==
  /\ pc = "call"
  /\ ret' = formatDate(arg)
  /\ pc' = "done"
  /\ UNCHANGED arg
  /\ LayoutUnchanged

NextDate == CallFormatDate

SpecDate == InitDate /\ [][NextDate]_vars

----------------------------------------------------------------------------
(* POST: the handler that reads the form, asks for the tailored text and   *)
(* calls generateResumePdf.  arg holds the environment and the handler's   *)
(* locals (the form fields once read, tailoredResume); ret is the response.*)

\* null, as FormData.get returns for an absent field and as the content of a
\* completion can be
Null == <<"<null>">>

\* a form value that is a File, not a string
File == <<"<File>">>

\* the values of a form field: absent, the empty string, a string, a file
FormValues == {Null, <<>>, <<"a">>, File}

\* JavaScript truthiness of a form value, of the API key and of the text
Truthy(v) == v # Null /\ v # Undefined /\ v # <<>>

\* the texts the generation returns: a headline alone, and a resume whose
\* body holds a line of every kind
TailoredTexts ==
  { <<"a">>,
    Join(<< <<"a">>, <<"a">>, <<"a">>, <<"a">>, <<"a">>, <<"a">>,
            <<"a", ":">>, <<>>, <<"a", " ", "a", "t", " ", "a", ":", "a">>,
            <<"middot", "a">>, <<"a">> >>, <<"\n">>) }

\* what awaiting openai.chat.completions.create gives: a rejection, or a
\* completion without choices, or one whose first choice has the content
\* null, '' or a text
Completions ==
  { [rejected |-> TRUE, choices |-> <<>>], [rejected |-> FALSE, choices |-> <<>>] }
    \cup { [rejected |-> FALSE, choices |-> << [message |-> [content |-> c]] >>] :
             c \in {Null, <<>>} \cup TailoredTexts }

\* new NextResponse(JSON.stringify({ error }), { status, headers: JSON })
JsonResponse(status, error) ==
  [status |-> status, contentType |-> "application/json", body |-> error]

\* lines 543-551: the response of the catch block
InternalServerError == JsonResponse(500, "Internal server error")

\* the positions of generateResumePdf while it lays the document out
LayoutPcs == {"name", "contact", "divider", "draw", "check", "line", "endcheck", "save"}

\* the request has arrived and nothing has run
InitPost ==
  /\ pc = "formData"
  /\ arg \in [job_description : {Undefined}, company : {Undefined}, role : {Undefined},
              OPENAI_API_KEY : {Undefined, <<"a">>}, tailoredResume : {Undefined}]
  /\ ret = <<>>
  /\ LayoutIdle

\* lines 357-360: the form is read and its three fields are taken
FormData ==
  /\ pc = "formData"
  /\ \E jobDescription \in FormValues, company \in FormValues, role \in FormValues :
       arg' = [arg EXCEPT !.job_description = jobDescription, !.company = company,
                          !.role = role]
  /\ pc' = "validate"
  /\ UNCHANGED ret
  /\ LayoutUnchanged

\* lines 363-368: a missing or empty field is answered with 400
Validate ==
  /\ pc = "validate"
  /\ IF ~Truthy(arg.job_description) \/ ~Truthy(arg.company) \/ ~Truthy(arg.role)
     THEN /\ ret' = JsonResponse(400, "Missing required fields: job_description, company, role")
          /\ pc' = "responded"
     ELSE /\ pc' = "key"
          /\ ret' = ret
  /\ UNCHANGED arg
  /\ LayoutUnchanged

\* the handler going on to the text generation without looking at the key
CheckKeySkipped ==
  /\ pc = "key"
  /\ pc' = "create"
  /\ UNCHANGED <<arg, ret>>
  /\ LayoutUnchanged

\* lines 371-376: a missing API key is answered with 500
CheckKey ==
  /\ pc = "key"
  /\ IF ~Truthy(arg.OPENAI_API_KEY)
     THEN /\ ret' = JsonResponse(500, "OpenAI API key not configured")
          /\ pc' = "responded"
     ELSE /\ pc' = "create"
          /\ ret' = ret
  /\ UNCHANGED arg
  /\ LayoutUnchanged

\* lines 509-532 and 150-187: the text generation is called; a rejection or a
\* completion without choices is caught, no text is answered with 500, and a
\* text is handed to generateResumePdf, which parses it and opens its document
Create ==
  /\ pc = "create"
  /\ \E completion \in Completions :
       IF completion.rejected \/ completion.choices = <<>>
       THEN /\ calls' = Append(calls, "chat.completions.create")
            /\ ret' = InternalServerError
            /\ pc' = "responded"
            /\ UNCHANGED <<arg, fields, pages, page, y>>
       ELSE LET content == completion.choices[1].message.content
                tailoredResume == IF Truthy(content) THEN content ELSE <<>>
            IN /\ arg' = [arg EXCEPT !.tailoredResume = tailoredResume]
               /\ IF ~Truthy(tailoredResume)
                  THEN /\ calls' = Append(calls, "chat.completions.create")
                       /\ ret' = JsonResponse(500, "Failed to generate tailored resume content")
                       /\ pc' = "responded"
                       /\ UNCHANGED <<fields, pages, page, y>>
                  ELSE /\ calls' = calls \o <<"chat.completions.create", "generateResumePdf">>
                       /\ fields' = parseResume(tailoredResume)
                       /\ pages' = addPage(<<>>, 595, 842)
                       /\ page' = 1
                       /\ y' = Pt(PAGE_HEIGHT - MARGIN_TOP)
                       /\ pc' = "name"
                       /\ ret' = ret
  /\ UNCHANGED <<bodyLines, i, blk, queue, job, inSkillsSection, skills, invocations>>

\* lines 543-551: an error thrown while the form is read or while
\* generateResumePdf runs (a rejected await, a character the font cannot
\* encode) is caught and answered with 500
Catch ==
  /\ pc \in {"formData"} \cup LayoutPcs
  /\ ret' = InternalServerError
  /\ pc' = "responded"
  /\ UNCHANGED arg
  /\ LayoutUnchanged

\* lines 535-542: the PDF is returned; company.replace and role.replace throw
\* on a file, which is caught
Respond ==
  /\ pc = "done"
  /\ calls # <<>>
  /\ ret' = IF arg.company = File \/ arg.role = File
            THEN InternalServerError
            ELSE [status |-> 200, contentType |-> "application/pdf", body |-> ret]
  /\ pc' = "responded"
  /\ UNCHANGED arg
  /\ LayoutUnchanged

NextPost ==
  \/ FormData
  \/ Validate
  \/ CheckKey
  \/ Create
  \/ Next
  \/ Catch
  \/ Respond

SpecPost == InitPost /\ [][NextPost]_vars

----------------------------------------------------------------------------
(* Two invocations of generateResumePdf.  Each is run alone first, then    *)
(* the two are started together and interleave at their await points       *)
(* (lines 153, 155, 156 and 351): between two awaits an invocation runs    *)
(* without interruption.  The variables pc, arg, fields, pages, page and   *)
(* ret are those of the running invocation; the locals declared after the  *)
(* last await before the layout (y and the others) do not outlive the      *)
(* stretch of code that runs without interruption.                         *)

\* the texts of the two invocations: a paragraph that rolls over to a second
\* page, and a section header, a blank line, a skills category and a job entry
TwoTexts ==
  { Join(<< <<"a">>, <<"a">>, <<"a">>, <<"a">>, <<"a">>, <<"a">>, Repeat("w", ParaWords) >>,
         <<"\n">>),
    Join(<< <<"a">>, <<"a">>, <<"a">>, <<"a">>, <<"a">>, <<"a">>, <<"a", ":">>, <<>>,
            <<"middot", "a">>, <<"a", " ", "a", "t", " ", "a", ":", "a">> >>, <<"\n">>) }

\* what an invocation keeps across an await: its position, its argument and
\* its locals name..body, pdfDoc and page, and its return value
Frame ==
  [pc |-> pc, arg |-> arg, fields |-> fields, pages |-> pages, page |-> page, ret |-> ret]

\* the frame of an invocation that has just been called
NewFrame(resumeText) ==
  [pc |-> "parse", arg |-> resumeText, fields |-> parseResume(<<>>), pages |-> <<>>,
   page |-> 0, ret |-> <<>>]

\* the other invocation
Other(k) == 3 - k

\* the positions at which an invocation waits for a promise: document
\* creation, the two font embeddings, save; and its end
AwaitPcs == {"create", "embedFont", "embedFontBold", "save", "done"}

InitTwo ==
  /\ \E t1 \in TwoTexts, t2 \in TwoTexts :
       /\ invocations = [phase |-> "alone", running |-> 1,
                         frames |-> <<NewFrame(t1), NewFrame(t2)>>,
                         texts |-> <<t1, t2>>, alone |-> <<>>]
       /\ arg = t1
  /\ pc = "parse"
  /\ ret = <<>>
  /\ fields = parseResume(<<>>)
  /\ pages = <<>>
  /\ page = 0
  /\ y = 0
  /\ bodyLines = <<>>
  /\ i = 0
  /\ blk = "none"
  /\ queue = <<>>
  /\ job = NoJob
  /\ inSkillsSection = FALSE
  /\ skills = <<>>
  /\ calls = <<>>

\* lines 150-153: the text is parsed and the creation of the document awaited
ParseAndCreate ==
  /\ pc = "parse"
  /\ fields' = parseResume(arg)
  /\ pc' = "create"
  /\ UNCHANGED <<arg, calls, invocations, ret, y, page, pages, bodyLines, i, blk, queue, job,
                 inSkillsSection, skills>>

\* lines 153-155: the document is there, its first page is added and the
\* embedding of the plain font awaited
AfterCreate ==
  /\ pc = "create"
  /\ pages' = addPage(<<>>, 595, 842)
  /\ page' = 1
  /\ pc' = "embedFont"
  /\ UNCHANGED <<arg, calls, invocations, ret, fields, y, bodyLines, i, blk, queue, job,
                 inSkillsSection, skills>>

\* lines 155-156: the embedding of the bold font is awaited
AfterEmbedFont ==
  /\ pc = "embedFont"
  /\ pc' = "embedFontBold"
  /\ UNCHANGED <<arg, calls, invocations, ret, fields, y, page, pages, bodyLines, i, blk, queue,
                 job, inSkillsSection, skills>>

\* lines 156-187: the fonts are there; the constants and the cursor of this
\* invocation are declared
AfterEmbedFontBold ==
  /\ pc = "embedFontBold"
  /\ y' = Pt(PAGE_HEIGHT - MARGIN_TOP)
  /\ bodyLines' = <<>>
  /\ i' = 0
  /\ blk' = "none"
  /\ queue' = <<>>
  /\ job' = NoJob
  /\ inSkillsSection' = FALSE
  /\ skills' = <<>>
  /\ pc' = "name"
  /\ UNCHANGED <<arg, calls, invocations, ret, fields, page, pages>>

\* the variables of the running invocation become those of frame f
Load(f) ==
  /\ pc' = f.pc
  /\ arg' = f.arg
  /\ fields' = f.fields
  /\ pages' = f.pages
  /\ page' = f.page
  /\ ret' = f.ret

\* the run alone of an invocation has ended: its document is kept, and the
\* other invocation is run alone or, after it, the two are started together
AloneDone ==
  /\ invocations.phase = "alone"
  /\ pc = "done"
  /\ LET k == invocations.running
     IN IF k = 1
        THEN /\ invocations' = [invocations EXCEPT !.running = 2, !.alone = <<ret>>]
             /\ Load(invocations.frames[2])
        ELSE /\ invocations' = [invocations EXCEPT !.phase = "both", !.running = 1,
                                                   !.alone = Append(@, ret)]
             /\ Load(invocations.frames[1])
  /\ UNCHANGED <<calls, y, bodyLines, i, blk, queue, job, inSkillsSection, skills>>

\* an await that leaves the document and the current page where the other
\* invocation finds them
ResumeOtherSharedDocument ==
  /\ invocations.phase = "both"
  /\ pc \in AwaitPcs
  /\ invocations.frames[Other(invocations.running)].pc # "done"
  /\ LET k == invocations.running
         f == invocations.frames[Other(k)]
     IN /\ invocations' = [invocations EXCEPT !.running = Other(k), !.frames[k] = Frame]
        /\ pc' = f.pc
        /\ arg' = f.arg
        /\ fields' = f.fields
        /\ ret' = f.ret
        /\ UNCHANGED <<pages, page>>
  /\ UNCHANGED <<calls, y, bodyLines, i, blk, queue, job, inSkillsSection, skills>>

\* lines 153, 155, 156, 351: while the running invocation waits at an await,
\* or once it has returned, the other invocation goes on from where it waits
ResumeOther ==
  /\ invocations.phase = "both"
  /\ pc \in AwaitPcs
  /\ invocations.frames[Other(invocations.running)].pc # "done"
  /\ LET k == invocations.running
     IN /\ invocations' = [invocations EXCEPT !.running = Other(k), !.frames[k] = Frame]
        /\ Load(invocations.frames[Other(k)])
  /\ UNCHANGED <<calls, y, bodyLines, i, blk, queue, job, inSkillsSection, skills>>

NextTwo ==
  \/ ParseAndCreate
  \/ AfterCreate
  \/ AfterEmbedFont
  \/ AfterEmbedFontBold
  \/ Next
  \/ AloneDone
  \/ ResumeOther

SpecTwo == InitTwo /\ [][NextTwo]_vars

----------------------------------------------------------------------------
(* Claims about parseResume (checked under SpecParse).                     *)

TextLines(text) == Split(text, {"\n"})

\* the 1-based indices of the non-blank lines of a text, in order
NonBlankIndices(text) ==
  LET lines == TextLines(text)
  IN SelectSeq([k \in 1..Len(lines) |-> k], LAMBDA k : Trim(lines[k]) # <<>>)

\* the non-blank lines of a text, trimmed, in order
NonBlankLines(text) ==
  LET lines == TextLines(text)
      idx == NonBlankIndices(text)
  IN [j \in 1..Len(idx) |-> Trim(lines[idx[j]])]

\* the six header fields of a parse result, in the order of the spec
HeaderOf(r) == <<r.headline, r.name, r.email, r.phone, r.location, r.linkedin>>

\* C5: for a text with at least six non-blank lines, parseResume returns the
\* first six non-blank lines, trimmed, as headline, name, email, phone,
\* location, link, whatever blank lines precede or separate them.
C5_SixHeaderLines ==
  (pc = "done" /\ Len(NonBlankLines(arg)) >= 6)
    => HeaderOf(ret) = SubSeq(NonBlankLines(arg), 1, 6)

\* a text of more than six non-blank lines that starts with a blank line and
\* has blank lines between its header lines has been parsed
C5_Witness ==
  /\ pc = "done"
  /\ Len(NonBlankLines(arg)) > 6
  /\ NonBlankIndices(arg)[1] > 1
  /\ NonBlankIndices(arg)[6] > NonBlankIndices(arg)[1] + 5

\* C6: for a text with k < 6 non-blank lines, parseResume returns (it does not
\* throw) with its first k header fields set to these lines, trimmed, in
\* order, and the other 6 - k fields unset.
C6_FewerThanSix ==
  (pc = "done" /\ Len(NonBlankLines(arg)) < 6)
    => \A k \in 1..6 :
         HeaderOf(ret)[k] = IF k <= Len(NonBlankLines(arg)) THEN NonBlankLines(arg)[k]
                            ELSE Undefined

\* a text of three non-blank lines, and one of none, have been parsed
C6_Witness ==
  /\ pc = "done"
  /\ Len(NonBlankLines(arg)) = 3
  /\ Len(TextLines(arg)) > 4
  /\ ret.email # Undefined
  /\ ret.phone = Undefined

\* the 0-based index of the line the body starts at according to the claim:
\* the first non-blank line after the last line collected as a header field
ClaimedBodyStart(text) ==
  LET idx == NonBlankIndices(text)
      n == Len(idx)
  IN IF n <= 6 THEN Len(TextLines(text)) ELSE idx[7] - 1

\* C7: the body parseResume returns is the rest of the text from the first
\* non-blank line after the last line collected as a header field, and holds
\* no line that was collected as a header field.
C7_BodyIsRemainder ==
  pc = "done" => ret.body = Join(SliceFrom(TextLines(arg), ClaimedBodyStart(arg)), <<"\n">>)

----------------------------------------------------------------------------
(* Claims about wrapText (checked under SpecWrap).                         *)

WordsOf(text) == Split(text, {" "})

WidthIn(a, text) == widthOfTextAtSize(a.font, text, a.size)

\* the words of a text that are wider than maxWidth, in order
WideWords(a, text) == SelectSeq(WordsOf(text), LAMBDA w : WidthIn(a, w) > a.maxWidth)

\* C9: when maxWidth is at least the width of the widest word of the text,
\* no line wrapText returns is wider than maxWidth.
C9_LinesFit ==
  (pc = "done" /\ WideWords(arg, arg.text) = <<>>)
    => \A k \in 1..Len(ret) : WidthIn(arg, ret[k]) <= arg.maxWidth

\* a text whose words all fit has been wrapped into several lines, one of
\* them of several words
C9_Witness ==
  /\ pc = "done"
  /\ WideWords(arg, arg.text) = <<>>
  /\ Len(ret) >= 2
  /\ \E k \in 1..Len(ret) : \E j \in 1..Len(ret[k]) : ret[k][j] = " "
  /\ WidthIn(arg, arg.text) > arg.maxWidth

\* C10: a word wider than maxWidth comes out whole, as a line of its own:
\* the lines that hold such a word are exactly these words, in order.
C10_WideWordAlone ==
  pc = "done"
    => SelectSeq(ret, LAMBDA line : WideWords(arg, line) # <<>>) = WideWords(arg, arg.text)

\* a text with a too wide word between two other words has been wrapped
C10_Witness ==
  /\ pc = "done"
  /\ arg.maxWidth >= Pt(CONTENT_WIDTH - 20)
  /\ Len(WideWords(arg, arg.text)) = 1
  /\ Len(WordsOf(arg.text)) = 3
  /\ WideWords(arg, WordsOf(arg.text)[2]) # <<>>
  /\ WordsOf(arg.text)[1] # <<>>
  /\ WordsOf(arg.text)[3] # <<>>
  /\ Len(ret) = 3

C12_Idempotent ==
  pc = "done"
    => \A k \in 1..Len(ret) :
         WidthIn(arg, ret[k]) <= arg.maxWidth
           => wrapText(ret[k], arg.font, arg.size, arg.maxWidth) = <<ret[k]>>

\* a text has been wrapped into two lines that fit, the first of two words
C12_Witness ==
  /\ pc = "done"
  /\ Len(ret) = 2
  /\ \A k \in 1..2 : WidthIn(arg, ret[k]) <= arg.maxWidth
  /\ Len(WordsOf(ret[1])) = 2
  /\ <<>> \notin {WordsOf(ret[1])[j] : j \in 1..2}

----------------------------------------------------------------------------
(* Claims about drawTextWithBold (checked under SpecBold).                 *)

\* the text holds the marker '**' somewhere
HasMarker(text) == \E k \in 1..(Len(text) - 1) : text[k] = "*" /\ text[k + 1] = "*"

\* a well-formed span starts at k and ends at e: '**', one or more characters
\* that are no stars, '**'
IsSpan(text, k, e) ==
  /\ k >= 1
  /\ e <= Len(text)
  /\ e - k >= 4
  /\ text[k] = "*" /\ text[k + 1] = "*"
  /\ text[e - 1] = "*" /\ text[e] = "*"
  /\ \A j \in (k + 2)..(e - 2) : text[j] # "*"

\* the end of the span that starts at k, or 0
SpanEnd(text, k) ==
  IF \E e \in 1..Len(text) : IsSpan(text, k, e)
  THEN CHOOSE e \in 1..Len(text) : IsSpan(text, k, e)
  ELSE 0

HasSpan(text) == \E k \in 1..Len(text) : SpanEnd(text, k) > 0

\* the one plain run a text is drawn as when nothing in it is bold
PlainRun(a) == <<DrawOp("text", a.text, a.x, a.y, a.size, "font", a.color)>>

\* C13: a text without the marker '**' is drawn as one run: the text itself,
\* in the plain font, at the starting x.
C13_NoMarkerOnePlainRun == (pc = "done" /\ ~HasMarker(arg.text)) => ret = PlainRun(arg)

\* a text with single stars and no marker has been drawn
C13_Witness ==
  /\ pc = "done"
  /\ ~HasMarker(arg.text)
  /\ Len(arg.text) >= 3
  /\ arg.text[1] = "*"
  /\ arg.text[Len(arg.text)] = "*"
  /\ ret = PlainRun(arg)

\* C14: a text whose markers form no well-formed span is drawn as literal
\* plain text: one plain run that holds the text, markers included, and no
\* bold run.
C14_UnmatchedMarkersLiteral ==
  (pc = "done" /\ HasMarker(arg.text) /\ ~HasSpan(arg.text)) => ret = PlainRun(arg)

RECURSIVE RunsFrom(_, _, _)
\* the runs of a text from index k on, cur being the plain run collected so
\* far: the spans, left to right, without their markers, and the plain text
\* between them
RunsFrom(text, k, cur) ==
  LET plain == IF cur = <<>> THEN <<>> ELSE <<[text |-> cur, bold |-> FALSE]>>
  IN IF k > Len(text) THEN plain
     ELSE IF SpanEnd(text, k) > 0
     THEN plain \o <<[text |-> SubSeq(text, k + 2, SpanEnd(text, k) - 2), bold |-> TRUE]>>
          \o RunsFrom(text, SpanEnd(text, k) + 1, <<>>)
     ELSE RunsFrom(text, k + 1, Append(cur, text[k]))

\* the runs the claim has for a text: alternating plain and bold, in order
ExpectedRuns(text) == RunsFrom(text, 1, <<>>)

\* the draws that put text on the page, as runs
DrawnRuns(ops) ==
  LET shown == SelectSeq(ops, LAMBDA op : op.text # <<>>)
  IN [k \in 1..Len(shown) |-> [text |-> shown[k].text, bold |-> shown[k].font = "fontBold"]]

RECURSIVE WidthOfRuns(_, _)
\* the sum of the widths of the first n draws, each in its own font
WidthOfRuns(ops, n) ==
  IF n = 0 THEN 0
  ELSE WidthOfRuns(ops, n - 1) + widthOfTextAtSize(ops[n].font, ops[n].text, ops[n].size)

\* C15: the runs drawn are the plain and bold runs of the text, in order and
\* with nothing inserted or lost but the markers of the spans, and each run
\* is drawn at the starting x plus the widths of the runs before it, each
\* measured in its own font.
C15_RunsInOrderAndAdjacent ==
  pc = "done"
    => /\ DrawnRuns(ret) = ExpectedRuns(arg.text)
       /\ \A k \in 1..Len(ret) : ret[k].x = arg.x + WidthOfRuns(ret, k - 1)
       /\ \A k \in 1..Len(ret) : ret[k].y = arg.y /\ ret[k].size = arg.size

----------------------------------------------------------------------------
(* Claims about generateResumePdf (checked under Spec).                    *)

\* the state in which a wrapping loop of the body is about to draw a line
BodyDrawDue == pc = "draw" /\ queue # <<>> /\ blk \in CheckedBlocks

\* the state in which the loop of the name or of the contact line is about to
\* draw a line
HeaderDrawDue == pc = "draw" /\ queue # <<>> /\ blk \notin CheckedBlocks

\* C1: no text of the body is drawn while the cursor is below the bottom
\* margin: whenever a wrapped line of a section header, job title, company,
\* period, skills category or plain body line is drawn, y >= MARGIN_BOTTOM.
C1_NoDrawBelowMargin == BodyDrawDue => ~NeedsNewPage(y)

\* C2: after every draw step (the draw, the advance of the cursor and the
\* roll-over check of the loop, where it has one) the cursor is at or above
\* the bottom margin, unless the draw was the first one on its page.
C2_CursorAfterDraw ==
  [][ /\ HeaderDrawDue => (~NeedsNewPage(y') \/ pages[page].ops = <<>>)
      /\ pc = "check" => (~NeedsNewPage(y') \/ Len(pages[page].ops) <= 1) ]_vars

\* the check at the end of the iteration is reached right after the check of
\* the last wrapped line of the iteration added a page: the current page is
\* still empty although the iteration has drawn
EndCheckAfterRoll ==
  /\ pc = "endcheck"
  /\ pages[page].ops = <<>>
  /\ ~(isJobExperience(CurrentLine) /\ ~JobMatch(CurrentLine).matched)

\* C3: a roll-over check that finds y < MARGIN_BOTTOM appends exactly one page,
\* of 595 x 842 like every page, makes it the current page and resets y to
\* PAGE_HEIGHT - MARGIN_TOP; and the check at the end of the iteration does
\* not fire when the check of the last wrapped line has just fired.
C3_OnePagePerOverflow ==
  /\ [](/\ \A p \in 1..Len(pages) : pages[p].size = <<595, 842>>
        /\ EndCheckAfterRoll => ~NeedsNewPage(y))
  /\ [][ (pc \in {"check", "endcheck"} /\ NeedsNewPage(y))
           => /\ pages' = Append(pages, [size |-> <<595, 842>>, ops |-> <<>>])
              /\ page' = Len(pages')
              /\ y' = Pt(PAGE_HEIGHT - MARGIN_TOP) ]_vars

\* the check of the last wrapped line of an iteration has added the second
\* page, and the check at the end of the iteration is due
C3_Witness == EndCheckAfterRoll /\ Len(pages) = 2 /\ y = Pt(PAGE_HEIGHT - MARGIN_TOP)

RECURSIVE Flatten(_)
\* the concatenation of a sequence of sequences
Flatten(ss) == IF ss = <<>> THEN <<>> ELSE Head(ss) \o Flatten(Tail(ss))

\* the draw operations of a document, page after page
AllOps(doc) == Flatten([p \in 1..Len(doc) |-> doc[p].ops])

\* the texts drawn after the divider rule, page after page
BodyTexts(doc) ==
  LET ops == AllOps(doc)
      rule == CHOOSE k \in 1..Len(ops) : ops[k].kind = "line"
  IN [k \in 1..(Len(ops) - rule) |-> ops[rule + k].text]

\* the texts of the drawText calls of drawTextWithBold for a wrapped line
RunTexts(wrapped) ==
  LET parts == BoldSplit(wrapped)
  IN [k \in 1..Len(parts) |-> IF IsBoldPart(parts[k]) THEN BoldContent(parts[k]) ELSE parts[k]]

\* the texts a trimmed body line is to be drawn as: its wrapped lines, block
\* by block, in order
LineTexts(line) ==
  IF line = <<>> THEN <<>>
  ELSE IF EndsWith(line, <<":">>)
  THEN wrapText(line, "fontBold", SECTION_HEADER_SIZE, Pt(CONTENT_WIDTH))
  ELSE IF isJobExperience(line)
  THEN LET m == JobMatch(line)
       IN IF m.matched
          THEN wrapText(Trim(m.jobTitle), "fontBold", BODY_SIZE + 1, Pt(CONTENT_WIDTH - 10))
               \o wrapText(Trim(m.companyName), "font", BODY_SIZE, Pt(CONTENT_WIDTH - 10))
               \o wrapText(formatDate(Trim(m.period)), "font", BODY_SIZE - 1,
                           Pt(CONTENT_WIDTH - 10))
          ELSE <<>>
  ELSE IF StartsWith(line, <<"middot">>)
  THEN wrapText(line, "fontBold", BODY_SIZE + 1, Pt(CONTENT_WIDTH - 20))
  ELSE LET wrapped == wrapText(line, "font", BODY_SIZE, Pt(CONTENT_WIDTH - 10))
       IN Flatten([k \in 1..Len(wrapped) |-> RunTexts(wrapped[k])])

\* the texts of a whole body, line after line
ExpectedBodyTexts(body) ==
  LET lines == Split(body, {"\n"})
  IN Flatten([k \in 1..Len(lines) |-> LineTexts(Trim(lines[k]))])

IsPrefix(s, t) == Len(s) <= Len(t) /\ SubSeq(t, 1, Len(s)) = s

C8_EmptyDocument ==
  fields.body = <<>>
    => /\ Len(pages) = 1
       /\ pc \in {"name", "contact", "divider", "draw", "line", "save", "done"}
       /\ pc = "draw" => blk \in {"name", "contact"}
       /\ pc = "line" => (i <= Len(bodyLines) /\ (i < Len(bodyLines) => CurrentLine = <<>>))
       /\ pc \in {"line", "save", "done"}
            => pages[1].ops # <<>> /\ pages[1].ops[Len(pages[1].ops)].kind = "line"
       /\ pc = "done" => ret = pages

\* a resume with a header and an empty body is finished, its cursor below
\* the bottom margin
C8_Witness ==
  /\ pc = "done"
  /\ fields.body = <<>>
  /\ fields.name # Undefined
  /\ Len(ret[1].ops) > 1
  /\ NeedsNewPage(y)

\* the top of a page, where the cursor starts (lines 185, 246, 333)
TopOfPage == Pt(PAGE_HEIGHT - MARGIN_TOP)

\* C22: the cursor never moves up within a page: a step either leaves y where
\* it is or lowers it, or it appends a page and sets y to exactly
\* PAGE_HEIGHT - MARGIN_TOP (770); so y is never above 770.
C22_CursorMonotone ==
  /\ [](y <= TopOfPage)
  /\ [][ \/ y' <= y /\ Len(pages') = Len(pages)
         \/ y' = TopOfPage /\ Len(pages') = Len(pages) + 1 ]_vars

\* the cursor has come down the second page after a roll-over raised it
C22_Witness ==
  /\ Len(pages) = 2
  /\ y < TopOfPage
  /\ ~NeedsNewPage(y)
  /\ pages[2].ops # <<>>

\* C23: the page list is never empty and only grows at its end, the current
\* page is always the last page of the list, and a draw lands on the last
\* page: the pages before it are never drawn on again.
C23_CurrentPageIsLast ==
  /\ [](Len(pages) >= 1 /\ page = Len(pages))
  /\ [][ /\ SubSeq(pages', 1, Len(pages) - 1) = SubSeq(pages, 1, Len(pages) - 1)
         /\ pages' # pages =>
              \/ pages' = Append(pages, [size |-> <<PAGE_WIDTH, PAGE_HEIGHT>>, ops |-> <<>>])
              \/ /\ Len(pages') = Len(pages)
                 /\ pages'[page].size = pages[page].size
                 /\ IsPrefix(pages[page].ops, pages'[page].ops) ]_vars

\* a draw is due on the second page while the first page holds the draws made
\* before the roll-over
C23_Witness ==
  /\ BodyDrawDue
  /\ page = 2
  /\ Len(pages) = 2
  /\ Len(pages[1].ops) > 1
  /\ pages[2].ops # <<>>

C25_BlankLineOnlyAdvances ==
  [][ (pc = "line" /\ i < Len(bodyLines) /\ CurrentLine = <<>>)
        => /\ y' = y - Pt(6)
           /\ pages' = pages
           /\ page' = page
           /\ pc' = "line"
           /\ i' = i + 1 ]_vars

\* a run of blank lines after a drawn line has been passed, the cursor has
\* come below the bottom margin and no page was added
C25_Witness ==
  /\ pc = "line"
  /\ i > BlankRun
  /\ Trim(bodyLines[i]) = <<>>
  /\ NeedsNewPage(y)
  /\ Len(pages) = 1
  /\ pages[1].ops[Len(pages[1].ops)].kind = "text"

\* the header phase: the name, the contact line and the divider
HeaderPhase == pc \in {"name", "contact", "divider"} \/ (pc = "draw" /\ blk \in {"name", "contact"})

\* C28: the header phase performs no roll-over: while the name, the contact
\* line and the divider are drawn the page list holds one page, which is the
\* current page, and the page count is still 1 when the body scan begins.
C28_HeaderOnFirstPage ==
  /\ [](HeaderPhase => (Len(pages) = 1 /\ page = 1))
  /\ [][ HeaderPhase => (Len(pages') = 1 /\ page' = 1) ]_vars
  /\ []((pc = "line" /\ i = 0) => Len(pages) = 1)

\* the divider is due on the first page with the cursor below the bottom
\* margin, after a name of many wrapped lines
C28_Witness ==
  /\ pc = "divider"
  /\ NeedsNewPage(y)
  /\ Len(pages[1].ops) > 1
  /\ page = 1

----------------------------------------------------------------------------
(* Claims about the body lines (checked under SpecLines).                  *)

\* a text of one or more characters on one line starts at from and ends at to
OneLineText(line, from, to) ==
  from <= to /\ \A k \in from..to : ~IsLineTerminator(line[k])

\* the index of the first ' at ' of a line, or 0
FirstAt(line) ==
  LET ps == {p \in 1..(Len(line) - 3) : SubSeq(line, p, p + 3) = <<" ", "a", "t", " ">>}
  IN IF ps = {} THEN 0 ELSE CHOOSE p \in ps : \A r \in ps : p <= r

\* the index of the first colon after index k, or 0
FirstColonAfter(line, k) ==
  LET qs == {q \in (k + 1)..Len(line) : line[q] = ":"}
  IN IF qs = {} THEN 0 ELSE CHOOSE q \in qs : \A r \in qs : q <= r

\* the line has the shape '<text> at <text>:<text>'
JobShape(line) ==
  \E p \in 2..Len(line) : \E q \in 1..(Len(line) - 1) :
    /\ p + 3 <= Len(line)
    /\ SubSeq(line, p, p + 3) = <<" ", "a", "t", " ">>
    /\ line[q] = ":"
    /\ OneLineText(line, p + 4, q - 1)
    /\ ~IsLineTerminator(line[q + 1])

\* the first rule, in the order of the claim, that a non-blank trimmed line
\* matches
Category(line) ==
  IF line[Len(line)] = ":" THEN "SectionHeader"
  ELSE IF JobShape(line) THEN "JobEntry"
  ELSE IF line[1] = "middot" THEN "SkillsCategory"
  ELSE "PlainBody"

\* the wrapped blocks that belong to a category
BlocksOf(category) ==
  CASE category = "SectionHeader" -> {"section"}
    [] category = "JobEntry" -> {"title", "company", "period"}
    [] category = "SkillsCategory" -> {"category"}
    [] category = "PlainBody" -> {"plain"}

\* a non-blank body line is about to be classified
LineDue == pc = "line" /\ i < Len(bodyLines) /\ CurrentLine # <<>>

\* C16: a non-blank body line is treated by the first rule it matches, in
\* the order section header, job entry, skills category, plain body, and by
\* no other: the step that classifies it enters the first block of that
\* category (a job entry whose parts cannot be extracted draws nothing), and
\* no block of another category is drawn for the line.
C16_FirstMatchingRule ==
  /\ []((pc \in {"draw", "check"} /\ blk \in CheckedBlocks)
          => blk \in BlocksOf(Category(CurrentLine)))
  /\ [][ LineDue =>
           CASE Category(CurrentLine) = "SectionHeader" -> pc' = "draw" /\ blk' = "section"
             [] Category(CurrentLine) = "JobEntry" ->
                  \/ pc' = "draw" /\ blk' = "title"
                  \/ pc' = "endcheck" /\ pages' = pages
             [] Category(CurrentLine) = "SkillsCategory" -> pc' = "draw" /\ blk' = "category"
             [] Category(CurrentLine) = "PlainBody" -> pc' = "draw" /\ blk' = "plain" ]_vars

\* the title of a job entry is being drawn for a line that starts with the
\* middle dot
C16_Witness ==
  /\ pc = "draw"
  /\ blk = "title"
  /\ queue # <<>>
  /\ CurrentLine[1] = "middot"

\* C17: while a job entry is drawn, its title is the text before the first
\* ' at ' of the line, its company the text between that ' at ' and the first
\* colon after it, and its period the text after that colon, trimmed.
C17_JobParts ==
  (pc \in {"draw", "check"} /\ blk \in {"title", "company", "period"})
    => LET p == FirstAt(CurrentLine)
           q == FirstColonAfter(CurrentLine, p + 3)
       IN /\ p > 0
          /\ q > 0
          /\ job.jobTitle = SubSeq(CurrentLine, 1, p - 1)
          /\ job.companyName = SubSeq(CurrentLine, p + 4, q - 1)
          /\ Trim(job.period) = Trim(SubSeq(CurrentLine, q + 1, Len(CurrentLine)))

\* the texts drawn for a line that is no section header when the rules after
\* the job entry are applied to it
FallThroughTexts(line) ==
  IF line[1] = "middot"
  THEN wrapText(line, "fontBold", BODY_SIZE + 1, Pt(CONTENT_WIDTH - 20))
  ELSE LET wrapped == wrapText(line, "font", BODY_SIZE, Pt(CONTENT_WIDTH - 10))
       IN Concat([k \in 1..Len(wrapped) |-> RunTexts(wrapped[k])])

\* C18: a line that holds ' at ' and does not match the pattern
\* /^(.+?) at (.+?):\s*(.+)$/ is not drawn as a job entry and is not left
\* undrawn: the finished document holds it as the rules after the job entry
\* draw it.
C18_FailedJobFallsThrough ==
  (/\ pc = "done"
   /\ Len(bodyLines) = 1
   /\ Trim(bodyLines[1]) # <<>>
   /\ Category(Trim(bodyLines[1])) # "SectionHeader"
   /\ FirstAt(Trim(bodyLines[1])) > 0
   /\ ~JobMatch(Trim(bodyLines[1])).matched)
    => BodyTexts(ret) = FallThroughTexts(Trim(bodyLines[1]))

----------------------------------------------------------------------------
(* Claims about formatDate (checked under SpecDate).                       *)

\* the tokens of a date text: the texts between hyphens and en-dashes
DateTokens(text) == Split(text, {"-", "endash"})

\* two digits, a slash, four digits
DateShape(t) ==
  /\ Len(t) = 7
  /\ t[3] = "/"
  /\ \A k \in {1, 2, 4, 5, 6, 7} : IsDigit(t[k])

\* the number a string of digits stands for
RECURSIVE NumberOf(_)
NumberOf(t) ==
  IF t = <<>> THEN 0
  ELSE NumberOf(SubSeq(t, 1, Len(t) - 1)) * 10
         + (CHOOSE d \in 0..9 : Digit(d) = t[Len(t)])

\* the three-letter name of month m, 1 <= m <= 12
MonthName(m) ==
  CASE m = 1 -> <<"J", "a", "n">> [] m = 2 -> <<"F", "e", "b">> [] m = 3 -> <<"M", "a", "r">>
    [] m = 4 -> <<"A", "p", "r">> [] m = 5 -> <<"M", "a", "y">> [] m = 6 -> <<"J", "u", "n">>
    [] m = 7 -> <<"J", "u", "l">> [] m = 8 -> <<"A", "u", "g">> [] m = 9 -> <<"S", "e", "p">>
    [] m = 10 -> <<"O", "c", "t">> [] m = 11 -> <<"N", "o", "v">> [] m = 12 -> <<"D", "e", "c">>

\* a token of the date shape whose month is no month of the year
BadMonth(t) == DateShape(t) /\ NumberOf(SubSeq(t, 1, 2)) \notin 1..12

\* a token as the claim rewrites it
Rewritten(t) ==
  IF DateShape(t) THEN MonthName(NumberOf(SubSeq(t, 1, 2))) \o <<" ">> \o SubSeq(t, 4, 7)
  ELSE t

C20_UnrecognizedUnchanged ==
  (pc = "done" /\ \A k \in 1..Len(DateTokens(arg)) : ~DateShape(Trim(DateTokens(arg)[k])))
    => ret = arg

----------------------------------------------------------------------------
(* Claims about long resumes (checked under SpecLong).                     *)

\* page p of the document carries a text draw
HasTextDraw(doc, p) == \E k \in 1..Len(doc[p].ops) : doc[p].ops[k].kind = "text"

\* C27: no page before the last is empty: every page other than the last one
\* carries at least one text draw.
C27_NoEmptyIntermediatePage == \A p \in 1..(Len(pages) - 1) : HasTextDraw(pages, p)

\* the right edge of a draw operation: its x plus the width of its text in
\* its font and size
RightEdge(op) == op.x + widthOfTextAtSize(op.font, op.text, op.size)

\* every word of the body line fits the width plain body lines are wrapped to,
\* measured in the plain font
WordsFitPlain(line) ==
  \A k \in 1..Len(WordsOf(line)) :
    widthOfTextAtSize("font", WordsOf(line)[k], BODY_SIZE) <= Pt(CONTENT_WIDTH - 10)

\* C29: when a wrapped line of a plain body line whose words each fit
\* CONTENT_WIDTH - 10 in the plain font has been drawn, the right edge of its
\* last run (x = left + 10 plus the widths of the runs, the bold ones in the
\* bold font) is not past PAGE_WIDTH - MARGIN_RIGHT.
C29_PlainLineWithinMargin ==
  (pc = "check" /\ blk = "plain" /\ WordsFitPlain(CurrentLine))
    => RightEdge(pages[page].ops[Len(pages[page].ops)]) <= right

----------------------------------------------------------------------------
(* Claims about the words of wrapText (checked under SpecWrap).            *)

\* the words of a text that are not empty, in order
NonEmptyWords(text) == SelectSeq(WordsOf(text), LAMBDA w : w # <<>>)

\* C26: wrapText loses and reorders no word: the non-empty words of the lines
\* it returns, line after line, are the non-empty words of the text in their
\* order; and every line but the last is as long as it can be: with a space
\* and the first word of the next line added it would be wider than maxWidth.
C26_WordsKeptLinesMaximal ==
  pc = "done"
    => /\ Flatten([k \in 1..Len(ret) |-> NonEmptyWords(ret[k])]) = NonEmptyWords(arg.text)
       /\ \A k \in 1..(Len(ret) - 1) :
            WidthIn(arg, ret[k] \o <<" ">> \o WordsOf(ret[k + 1])[1]) > arg.maxWidth

\* a text of three words has been wrapped into a line of two words and a
\* line of one, both narrower than maxWidth
C26_Witness ==
  /\ pc = "done"
  /\ Len(NonEmptyWords(arg.text)) = 3
  /\ Len(ret) = 2
  /\ Len(NonEmptyWords(ret[1])) = 2
  /\ Len(NonEmptyWords(ret[2])) = 1
  /\ WidthIn(arg, ret[1]) < arg.maxWidth
  /\ WidthIn(arg, ret[2]) < arg.maxWidth

----------------------------------------------------------------------------
(* Claims about the POST handler (checked under SpecPost).                 *)

\* the form has been read
FormRead == arg.job_description # Undefined /\ arg.company # Undefined /\ arg.role # Undefined

\* the three form fields are present
FieldsPresent == Truthy(arg.job_description) /\ Truthy(arg.company) /\ Truthy(arg.role)

\* the response is a JSON error of the given status
IsJsonError(status) ==
  pc = "responded" /\ ret.status = status /\ ret.contentType = "application/json"

\* C30: generateResumePdf is called only once the three form fields are
\* present, the API key is configured and the text generation has returned a
\* text that is not empty; a missing field is answered with 400 before any
\* call of the text generation; and a missing key, an empty generated text
\* and a thrown error are each answered with a JSON error of status 500: a
\* PDF is answered only when generateResumePdf has returned its document.
C30_GenerateOnlyWhenReady ==
  /\ []((pc \in LayoutPcs \cup {"done"} \/ "generateResumePdf" \in {calls[k] : k \in 1..Len(calls)})
          => /\ FieldsPresent
             /\ Truthy(arg.OPENAI_API_KEY)
             /\ Truthy(arg.tailoredResume)
             /\ fields = parseResume(arg.tailoredResume)
             /\ calls = <<"chat.completions.create", "generateResumePdf">>)
  /\ []((pc = "responded" /\ FormRead /\ ~FieldsPresent) => (IsJsonError(400) /\ calls = <<>>))
  /\ []((pc = "responded" /\ ret.status = 400) => (FormRead /\ ~FieldsPresent /\ calls = <<>>))
  /\ []((pc = "responded" /\ FieldsPresent /\ ~Truthy(arg.OPENAI_API_KEY))
          => (IsJsonError(500) /\ calls = <<>>))
  /\ []((pc = "responded" /\ arg.tailoredResume = <<>>) => IsJsonError(500))
  /\ []((pc = "responded" /\ ~IsJsonError(400) /\ ~IsJsonError(500))
          => /\ ret.status = 200
             /\ ret.contentType = "application/pdf"
             /\ ret.body = pages
             /\ calls = <<"chat.completions.create", "generateResumePdf">>)
  /\ [][ (pc' = "responded" /\ pc \notin {"validate", "done"}) => IsJsonError(500)' ]_vars

\* a request with its three fields and the key has been answered with the PDF
\* of a resume whose body was laid out
C30_Witness ==
  /\ pc = "responded"
  /\ FieldsPresent
  /\ ret.status = 200
  /\ ret.body = pages
  /\ Len(pages[1].ops) > 3
  /\ Len(bodyLines) > 1

----------------------------------------------------------------------------
(* Claims about two invocations (checked under SpecTwo).                   *)

\* C21: two invocations of generateResumePdf share no mutable state: when
\* the two are interleaved at their await points, each returns the document
\* it returns when it is run alone.
C21_InvocationsIsolated ==
  invocations.phase = "both"
    => /\ pc = "done" => ret = invocations.alone[invocations.running]
       /\ LET o == Other(invocations.running)
          IN invocations.frames[o].pc = "done"
               => invocations.frames[o].ret = invocations.alone[o]

\* the first invocation, resumed, has rolled over to its second page while
\* the second invocation, which has a different text and holds its own page
\* list, waits for its bold font
C21_Witness ==
  /\ invocations.phase = "both"
  /\ invocations.running = 1
  /\ pc = "endcheck"
  /\ Len(pages) = 2
  /\ invocations.frames[2].pc = "embedFontBold"
  /\ Len(invocations.frames[2].pages) = 1
  /\ invocations.texts[1] # invocations.texts[2]

====
